---- MODULE Spec2Model ----
(***************************************************************************)
(* The default (synchronous) pmem2 data mover of src/libpmem2/mover.c:     *)
(* the vdm callbacks sync_operation_new / start / check / delete, the      *)
(* mover life cycle mover_new / mover_delete and the entry point           *)
(* pmem2_memcpy_async.                                                     *)
(*                                                                         *)
(* The specifications share the variables and the handlers' definitions:   *)
(*   Spec       every handler is one atomic step (single-thread drivers),  *)
(*              several movers and several operations may be live;         *)
(*   SpecDrive  one future is driven at a time, op_start is split at its   *)
(*              two memory effects (the durable write, the release store   *)
(*              of the flag) and other threads may poll in between;        *)
(*   SpecMulti  every map has its mover and a few futures are made on      *)
(*              them and driven by single-thread drivers.                  *)
(***************************************************************************)
EXTENDS Integers, FiniteSets, Sequences, TLC

\* ------------------------------------------------------------- bounds
MaxMovers == 2      \* data_mover objects (and maps) that can exist at once
ArenaSlots == 2     \* operation slots one membuf can hand out
MemSize == 4        \* bytes of memory the operations address
MaxLen == 2         \* longest copy/move
MaxFlags == 1       \* flags values passed to pmem2_memcpy_async
MaxFutures == 2     \* futures the program of SpecMulti makes

\* ---------------------------------------------------------- constants
NULL == 0
PMEM2_F_MEM_NONTEMPORAL == "PMEM2_F_MEM_NONTEMPORAL"

Movers == 1..MaxMovers          \* addresses of struct data_mover objects
Maps == 1..MaxMovers            \* struct pmem2_map objects
Slots == 1..ArenaSlots          \* slots of one membuf
Addr == 0..(MemSize - 1)
Bytes == Addr                   \* byte values: each byte starts as its address
Errnos == {11, 12}              \* EAGAIN, ENOMEM: what errno can hold
MallocErrnos == {12}            \* ENOMEM: what a failed malloc leaves in errno

VDM_OPERATION_MEMCPY == "VDM_OPERATION_MEMCPY"
VDM_OPERATION_MEMMOVE == "VDM_OPERATION_MEMMOVE"
VDM_OPERATION_MEMSET == "VDM_OPERATION_MEMSET"
VDM_SUCCESS == "VDM_SUCCESS"
FUTURE_STATE_IDLE == "FUTURE_STATE_IDLE"
FUTURE_STATE_COMPLETE == "FUTURE_STATE_COMPLETE"
FUTURE_NOTIFIER_NONE == "FUTURE_NOTIFIER_NONE"

VARIABLES
    mem,        \* [Addr -> Bytes]: memory as the thread running op_start sees it
    seen,       \* [Addr -> Bytes]: memory as visible to the other threads
    pre,        \* [Addr -> Bytes]: mem when the latest future was made or started
    dms,        \* [Movers -> [live, map]]: the struct data_mover objects
    vdm,        \* [Maps -> Movers \cup {NULL}]: map->vdm, mover_new's *vdm
    membuf,     \* [Movers -> [user_data, used]]: dms->membuf and its slots
    complete,   \* [Movers -> [Slots -> 0..1]]: data_mover_op.complete
    fut,        \* [Movers -> [Slots -> operation]]: the future's vdm_operation
    pc,         \* [Movers -> [Slots -> where the slot's future is: "none" (never
                \* handed out), "idle", "store", "done", "freed" (deleted)]]
    ret,        \* what the latest call returned
    aborted     \* FATAL() was reached: the process is gone

vars == <<mem, seen, pre, dms, vdm, membuf, complete, fut, pc, ret, aborted>>

\* --------------------------------------------------- operation descriptors
\* struct vdm_operation: type and data.memcpy.{dest, src, n, flags}
Operation(type, dest, src, n, flags) ==
    [type |-> type, dest |-> dest, src |-> src, n |-> n, flags |-> flags]

NoOperation == [type |-> "none", dest |-> 0, src |-> 0, n |-> 0, flags |-> 0]

InRange(a, n) == a \in Addr /\ a + n <= MemSize

Overlap(dest, src, n) == dest < src + n /\ src < dest + n

\* every copy and move that fits the memory, and one operation of a type the
\* mover does not implement
Operations ==
    { o \in { Operation(t, d, s, n, 0) :
                t \in {VDM_OPERATION_MEMCPY, VDM_OPERATION_MEMMOVE},
                d \in Addr, s \in Addr, n \in 1..MaxLen } :
        InRange(o.dest, o.n) /\ InRange(o.src, o.n) }
    \cup { Operation(VDM_OPERATION_MEMSET, 0, 0, 1, 0) }

\* the operations the drivers of Spec issue: one byte from the first address
\* to the last one
LifeOperations ==
    { o \in Operations : o.n = 1 /\ o.src = 0 /\ o.dest \in {0, MemSize - 1}
                         /\ (o.dest = 0 => o.type = VDM_OPERATION_MEMSET) }

\* ------------------------------------------------ the region's functions
RECURSIVE CopyUp(_, _, _, _, _)
\* bytes i..n-1 copied one by one, lowest address first
CopyUp(memory, dest, src, n, i) ==
    IF i >= n THEN memory
    ELSE CopyUp([memory EXCEPT ![dest + i] = memory[src + i]], dest, src, n, i + 1)

RECURSIVE CopyDown(_, _, _, _, _)
\* bytes i-1..0 copied one by one, highest address first
CopyDown(memory, dest, src, n, i) ==
    IF i <= 0 THEN memory
    ELSE CopyDown([memory EXCEPT ![dest + i - 1] = memory[src + i - 1]],
                  dest, src, n, i - 1)

\* pmem2_get_memmove_fn(map): the durable move, safe for overlapping ranges
memmove_fn(memory, dest, src, n, flags) ==
    IF dest <= src THEN CopyUp(memory, dest, src, n, 0)
    ELSE CopyDown(memory, dest, src, n, n)

\* pmem2_get_memcpy_fn(map): the durable copy; with overlapping ranges the
\* result is not defined, and every order of copying is a possible outcome
memcpy_fn(memory, dest, src, n, flags) ==
    { CopyUp(memory, dest, src, n, 0), CopyDown(memory, dest, src, n, n) }

\* ------------------------------------------------------ the membuf arena
\* no arena: what a NULL struct membuf pointer stands for
NoMembuf == [user_data |-> NULL, used |-> {}]

\* membuf_new(user_data): the arena of a mover, or NULL
membuf_new(user_data) == { [user_data |-> user_data, used |-> {}], NoMembuf }

\* membuf_alloc(membuf, size): a slot that is not handed out, NULL when every
\* slot is
membuf_alloc(m) ==
    IF Slots \ membuf[m].used = {} THEN {NULL} ELSE Slots \ membuf[m].used

\* the arena's bookkeeping once membuf_alloc has returned slot
membuf_allocated(m, slot) ==
    IF slot = NULL THEN membuf ELSE [membuf EXCEPT ![m].used = @ \cup {slot}]

\* membuf_free(ptr): the slot goes back to its arena
membuf_free(m, slot) == [membuf EXCEPT ![m].used = @ \ {slot}]

\* membuf_ptr_user_data(ptr): the owner the slot's arena was created with
membuf_ptr_user_data(m, slot) == membuf[m].user_data

\* membuf_delete(membuf): releases the arena; with slots still handed out the
\* call breaks the allocator's contract and what happens is not defined
membuf_delete(m) ==
    IF membuf[m].used = {} THEN {"released"} ELSE {"released", "abort"}

\* --------------------------------------------------------- the callbacks
\* sync_operation_check: acquire load of the flag
sync_operation_check(m, slot) ==
    IF complete[m][slot] # 0 THEN FUTURE_STATE_COMPLETE ELSE FUTURE_STATE_IDLE

\* sync_operation_new without lines 63-64: the store goes through NULL
sync_operation_new_unchecked(m, type, slot) ==
    IF slot = NULL
    THEN [handle |-> NULL, complete |-> [complete EXCEPT ![m] = [s \in Slots |-> 0]]]
    ELSE [handle |-> slot, complete |-> [complete EXCEPT ![m][slot] = 0]]

\* sync_operation_new without line 66
sync_operation_new_uninitialized(m, type, slot) ==
    [handle |-> slot, complete |-> complete]

\* sync_operation_new, given what membuf_alloc returned: the handle and the
\* flags afterwards
sync_operation_new(m, type, slot) ==
    IF slot = NULL
    THEN [handle |-> NULL, complete |-> complete]
    ELSE [handle |-> slot, complete |-> [complete EXCEPT ![m][slot] = 0]]

\* sync_operation_delete releasing every slot of the arena its handle is in
sync_operation_delete_frees_arena(m, slot, operation) ==
    [fatal |-> operation.type \notin {VDM_OPERATION_MEMCPY, VDM_OPERATION_MEMMOVE},
     output |-> [result |-> VDM_SUCCESS, type |-> operation.type,
                 dest |-> operation.dest],
     membuf |-> [membuf EXCEPT ![m].used = {}]]

\* sync_operation_delete without line 95
sync_operation_delete_leak(m, slot, operation) ==
    [fatal |-> operation.type \notin {VDM_OPERATION_MEMCPY, VDM_OPERATION_MEMMOVE},
     output |-> [result |-> VDM_SUCCESS, type |-> operation.type,
                 dest |-> operation.dest],
     membuf |-> membuf]

\* sync_operation_delete answering every operation as a memcpy
sync_operation_delete_memcpy_only(m, slot, operation) ==
    [fatal |-> operation.type \notin {VDM_OPERATION_MEMCPY, VDM_OPERATION_MEMMOVE},
     output |-> [result |-> VDM_SUCCESS, type |-> VDM_OPERATION_MEMCPY,
                 dest |-> operation.dest],
     membuf |-> membuf_free(m, slot)]

\* sync_operation_delete: the output it fills in, whether it reaches FATAL,
\* and the arena afterwards
sync_operation_delete(m, slot, operation) ==
    CASE operation.type = VDM_OPERATION_MEMCPY ->
           [fatal |-> FALSE,
            output |-> [result |-> VDM_SUCCESS, type |-> VDM_OPERATION_MEMCPY,
                        dest |-> operation.dest],
            membuf |-> membuf_free(m, slot)]
      [] operation.type = VDM_OPERATION_MEMMOVE ->
           [fatal |-> FALSE,
            output |-> [result |-> VDM_SUCCESS, type |-> VDM_OPERATION_MEMMOVE,
                        dest |-> operation.dest],
            membuf |-> membuf_free(m, slot)]
      [] OTHER ->
           [fatal |-> TRUE,
            output |-> [result |-> VDM_SUCCESS, type |-> "unset", dest |-> NULL],
            membuf |-> membuf]

\* sync_operation_start asking the driver to wait for a wake-up
start_notifier_waker(n) == IF n THEN "FUTURE_NOTIFIER_WAKER" ELSE "unset"

\* sync_operation_start, lines 109-110: what the notifier is told
start_notifier(n) == IF n THEN FUTURE_NOTIFIER_NONE ELSE "unset"

\* sync_operation_start with a switch that has no default branch
start_fatal_never(operation) == FALSE

\* sync_operation_start, the default branch of the switch
start_fatal(operation) ==
    operation.type \notin {VDM_OPERATION_MEMCPY, VDM_OPERATION_MEMMOVE}

\* sync_operation_start taking the mover from a variable all movers share
\* instead of membuf_ptr_user_data(data)
start_called_shared_mover(m, slot, operation) ==
    [fn |-> IF operation.type = VDM_OPERATION_MEMCPY THEN "memcpy_fn"
            ELSE "memmove_fn",
     map |-> dms[CHOOSE x \in Movers : dms[x].live].map,
     flags |-> PMEM2_F_MEM_NONTEMPORAL]

\* sync_operation_start, the switch: which function of which map is called
start_called(m, slot, operation) ==
    LET mover == membuf_ptr_user_data(m, slot) IN
    [fn |-> IF operation.type = VDM_OPERATION_MEMCPY THEN "memcpy_fn"
            ELSE "memmove_fn",
     map |-> dms[mover].map,
     flags |-> PMEM2_F_MEM_NONTEMPORAL]

\* sync_operation_start with the arguments of the copy exchanged
start_write_swapped(m, slot, operation, memory) ==
    IF operation.type = VDM_OPERATION_MEMCPY
    THEN memcpy_fn(memory, operation.src, operation.dest, operation.n,
                   PMEM2_F_MEM_NONTEMPORAL)
    ELSE { memmove_fn(memory, operation.dest, operation.src, operation.n,
                      PMEM2_F_MEM_NONTEMPORAL) }

\* sync_operation_start calling memcpy_fn in both cases
start_write_memcpy_only(m, slot, operation, memory) ==
    memcpy_fn(memory, operation.dest, operation.src, operation.n,
              PMEM2_F_MEM_NONTEMPORAL)

\* sync_operation_start, the switch: the memories the call can leave
start_write(m, slot, operation, memory) ==
    IF operation.type = VDM_OPERATION_MEMCPY
    THEN memcpy_fn(memory, operation.dest, operation.src, operation.n,
                   PMEM2_F_MEM_NONTEMPORAL)
    ELSE { memmove_fn(memory, operation.dest, operation.src, operation.n,
                      PMEM2_F_MEM_NONTEMPORAL) }

\* sync_operation_start storing into the slot of that number of every arena
start_store_every_arena(m, slot) ==
    [x \in Movers |-> [complete[x] EXCEPT ![slot] = 1]]

\* sync_operation_start returning without the store
start_store_missing(m, slot) == complete

\* sync_operation_start, lines 136-137: the store of the flag
start_store(m, slot) == [complete EXCEPT ![m][slot] = 1]

\* the store of the flag with memory_order_relaxed: nothing else is published
store_relaxed(visible, written) == visible

\* memory_order_release of that store: what the storing thread wrote before
\* is visible to whoever reads the flag with memory_order_acquire
store_release(visible, written) == written

\* ----------------------------------------------------------------- state
Handles == Movers \X Slots

\* the handles op_new returned for mover m and op_delete has not taken back
Held(m) == { s \in Slots : pc[m][s] \in {"idle", "store", "done"} }

NoFuture == \A m \in Movers : Held(m) = {}

\* addresses malloc can return for a new data_mover
FreeMovers == { m \in Movers : ~dms[m].live }

\* a future points into an arena that was released: whatever the program does
\* with it is not defined, and the behaviour is not followed further
Broken == \E m \in Movers : ~dms[m].live /\ Held(m) # {}

Running == ~aborted /\ ~Broken

NoMover == [live |-> FALSE, map |-> NULL]

\* map->vdm points to a data_mover that exists
HasMover(r) == IF vdm[r] = NULL THEN FALSE ELSE dms[vdm[r]].live

Init ==
    /\ mem = [a \in Addr |-> a]
    /\ seen = mem
    /\ pre = mem
    /\ dms = [m \in Movers |-> NoMover]
    /\ vdm = [r \in Maps |-> NULL]
    /\ membuf = [m \in Movers |-> NoMembuf]
    /\ complete = [m \in Movers |-> [s \in Slots |-> 0]]
    /\ fut = [m \in Movers |-> [s \in Slots |-> NoOperation]]
    /\ pc = [m \in Movers |-> [s \in Slots |-> "none"]]
    /\ ret = [fn |-> "none"]
    /\ aborted = FALSE

\* ------------------------------------------------------------ life cycle
\* mover_new(map, &map->vdm)
MoverNew(r) ==
    /\ Running
    /\ ~HasMover(r)
    /\ \/ \* pmem2_malloc returns NULL and sets ret
          /\ \E e \in MallocErrnos :
               ret' = [fn |-> "mover_new", map |-> r, m |-> NULL, val |-> -e]
          /\ UNCHANGED <<mem, seen, pre, dms, vdm, membuf, complete, fut, pc,
                         aborted>>
       \/ \E m \in FreeMovers : \E buf \in membuf_new(m) :
            /\ vdm' = [vdm EXCEPT ![r] = m]
            /\ IF buf = NoMembuf
               THEN \* membuf_failed: free(dms)
                    /\ \E e \in Errnos :
                         ret' = [fn |-> "mover_new", map |-> r, m |-> m,
                                 val |-> -e]
                    /\ UNCHANGED <<dms, membuf, complete>>
               ELSE /\ dms' = [dms EXCEPT ![m] = [live |-> TRUE, map |-> r]]
                    /\ membuf' = [membuf EXCEPT ![m] = buf]
                    /\ \E garbage \in [Slots -> 0..1] :
                         complete' = [complete EXCEPT ![m] = garbage]
                    /\ ret' = [fn |-> "mover_new", map |-> r, m |-> m,
                               val |-> 0]
            /\ UNCHANGED <<mem, seen, pre, fut, pc, aborted>>

\* mover_delete(map->vdm)
MoverDelete(r) ==
    /\ Running
    /\ HasMover(r)
    /\ LET m == vdm[r] IN
       \E outcome \in membuf_delete(m) :
         IF outcome = "abort"
         THEN /\ aborted' = TRUE
              /\ ret' = [fn |-> "abort", in |-> "mover_delete"]
              /\ UNCHANGED <<mem, seen, pre, dms, vdm, membuf, complete, fut, pc>>
         ELSE /\ membuf' = [membuf EXCEPT ![m] = NoMembuf]
              /\ dms' = [dms EXCEPT ![m] = NoMover]
              /\ complete' = [complete EXCEPT ![m] = [s \in Slots |-> 0]]
              /\ pc' = [pc EXCEPT ![m] =
                          [s \in Slots |-> IF @[s] = "freed" THEN "none" ELSE @[s]]]
              /\ ret' = [fn |-> "mover_delete", m |-> m,
                         outstanding |-> Cardinality(membuf[m].used)]
              /\ UNCHANGED <<mem, seen, pre, vdm, fut, aborted>>

\* pmem2_memcpy_async handing its flags on to vdm_memcpy
memcpy_async_operation_flags(pmemdest, src, len, flags) ==
    Operation(VDM_OPERATION_MEMCPY, pmemdest, src, len, flags)

\* pmem2_memcpy_async, lines 196-198: the operation of the future that
\* vdm_memcpy(map->vdm, pmemdest, src, len, 0) makes
memcpy_async_operation(pmemdest, src, len, flags) ==
    Operation(VDM_OPERATION_MEMCPY, pmemdest, src, len, 0)

\* ------------------------------------------------------------ operations
\* op_new called for a future that carries operation; api names the caller
\* and flags is what the caller was given as flags (0 for op_new itself)
NewFuture(api, m, operation, flags) ==
    /\ Running
    /\ dms[m].live
    /\ \E slot \in membuf_alloc(m) :
         LET new == sync_operation_new(m, operation.type, slot) IN
         /\ membuf' = membuf_allocated(m, slot)
         /\ complete' = new.complete
         /\ IF new.handle = NULL
            THEN UNCHANGED <<fut, pc>>
            ELSE /\ fut' = [fut EXCEPT ![m][new.handle] = operation]
                 /\ pc' = [pc EXCEPT ![m][new.handle] = "idle"]
         /\ ret' = [fn |-> api, m |-> m, s |-> new.handle, op |-> operation,
                    flags |-> flags,
                    reused |-> IF slot = NULL THEN FALSE
                               ELSE pc[m][slot] = "freed",
                    stale |-> IF slot = NULL THEN 0 ELSE complete[m][slot]]
    /\ pre' = mem
    /\ UNCHANGED <<mem, seen, dms, vdm, aborted>>

\* the driver of a future of the vdm: vdm->op_new(vdm, type)
OpNew(m, operation) == NewFuture("op_new", m, operation, 0)

\* pmem2_memcpy_async: vdm_memcpy(map->vdm, pmemdest, src, len, 0)
Pmem2MemcpyAsync(r, pmemdest, src, len, flags) ==
    /\ HasMover(r)
    /\ InRange(pmemdest, len) /\ InRange(src, len)
    /\ NewFuture("pmem2_memcpy_async", vdm[r],
                 memcpy_async_operation(pmemdest, src, len, flags), flags)

\* op_check(data, operation)
OpCheck(m, s) ==
    /\ Running
    /\ dms[m].live
    /\ s \in Held(m)
    /\ ret' = [fn |-> "op_check", m |-> m, s |-> s,
               val |-> sync_operation_check(m, s)]
    /\ UNCHANGED <<mem, seen, pre, dms, vdm, membuf, complete, fut, pc, aborted>>

\* what op_start returns, and what it left for the driver
StartReturn(m, s, n) ==
    [fn |-> "op_start", m |-> m, s |-> s, val |-> 0, n |-> n,
     notifier_used |-> start_notifier(n),
     called |-> start_called(m, s, fut[m][s])]

\* op_start(data, operation, n) reaching FATAL
StartAbort(m, s) ==
    /\ Running
    /\ dms[m].live
    /\ pc[m][s] = "idle"
    /\ start_fatal(fut[m][s])
    /\ aborted' = TRUE
    /\ ret' = [fn |-> "abort", in |-> "op_start"]
    /\ UNCHANGED <<mem, seen, pre, dms, vdm, membuf, complete, fut, pc>>

\* op_start(data, operation, n), the whole call
OpStart(m, s, n) ==
    /\ Running
    /\ dms[m].live
    /\ pc[m][s] = "idle"
    /\ ~start_fatal(fut[m][s])
    /\ pre' = mem
    /\ mem' \in start_write(m, s, fut[m][s], mem)
    /\ seen' = store_release(seen, mem')
    /\ complete' = start_store(m, s)
    /\ pc' = [pc EXCEPT ![m][s] = "done"]
    /\ ret' = StartReturn(m, s, n)
    /\ UNCHANGED <<dms, vdm, membuf, fut, aborted>>

\* op_start up to the return of the region's function: the thread has written
\* the bytes, other threads need not see them yet
StartWrite(m, s) ==
    /\ Running
    /\ dms[m].live
    /\ pc[m][s] = "idle"
    /\ ~start_fatal(fut[m][s])
    /\ pre' = mem
    /\ mem' \in start_write(m, s, fut[m][s], mem)
    /\ pc' = [pc EXCEPT ![m][s] = "store"]
    /\ UNCHANGED <<seen, dms, vdm, membuf, complete, fut, ret, aborted>>

\* a written byte becomes visible to the other threads
Propagate(a) ==
    /\ Running
    /\ seen[a] # mem[a]
    /\ seen' = [seen EXCEPT ![a] = mem[a]]
    /\ UNCHANGED <<mem, pre, dms, vdm, membuf, complete, fut, pc, ret, aborted>>

\* op_start from the store of the flag to the return
StartStore(m, s, n) ==
    /\ Running
    /\ dms[m].live
    /\ pc[m][s] = "store"
    /\ seen' = store_release(seen, mem)
    /\ complete' = start_store(m, s)
    /\ pc' = [pc EXCEPT ![m][s] = "done"]
    /\ ret' = StartReturn(m, s, n)
    /\ UNCHANGED <<mem, pre, dms, vdm, membuf, fut, aborted>>

\* op_delete(data, operation, output)
OpDelete(m, s) ==
    /\ Running
    /\ dms[m].live
    /\ pc[m][s] \in {"idle", "done"}
    /\ LET del == sync_operation_delete(m, s, fut[m][s]) IN
       IF del.fatal
       THEN /\ aborted' = TRUE
            /\ ret' = [fn |-> "abort", in |-> "op_delete"]
            /\ UNCHANGED <<membuf, fut, pc>>
       ELSE /\ membuf' = del.membuf
            /\ fut' = [fut EXCEPT ![m][s] = NoOperation]
            /\ pc' = [pc EXCEPT ![m][s] = "freed"]
            /\ ret' = [fn |-> "op_delete", m |-> m, s |-> s, op |-> fut[m][s],
                       started |-> (pc[m][s] = "done"), out |-> del.output]
            /\ aborted' = aborted
    /\ UNCHANGED <<mem, seen, pre, dms, vdm, complete>>

\* ------------------------------------------- op_new and op_delete by threads
\* Several threads drive futures of one mover at once.  A thread in op_new or
\* in op_delete works on one slot, so pc of the slot holds the thread's
\* position: "new" after membuf_alloc returned the slot (line 60) and before
\* the flag is cleared, "deleting" after the output is written (lines 78-93)
\* and before membuf_free (line 95).

\* the slots that carry an operation, its creation or its deletion
Occupied(m) ==
    { s \in Slots : pc[m][s] \in {"new", "idle", "store", "done", "deleting"} }

\* op_new up to the return of membuf_alloc; with no slot left the call
\* returns NULL at once (lines 63-64)
NewAlloc(m, operation) ==
    /\ Running
    /\ dms[m].live
    /\ \E slot \in membuf_alloc(m) :
         /\ membuf' = membuf_allocated(m, slot)
         /\ IF slot = NULL
            THEN /\ ret' = [fn |-> "op_new", m |-> m, s |-> NULL,
                            op |-> operation, reused |-> FALSE, stale |-> 0]
                 /\ UNCHANGED <<fut, pc>>
            ELSE /\ ret' = [fn |-> "membuf_alloc", m |-> m, s |-> slot,
                            taken |-> slot \in Occupied(m),
                            reused |-> pc[m][slot] = "freed"]
                 /\ fut' = [fut EXCEPT ![m][slot] = operation]
                 /\ pc' = [pc EXCEPT ![m][slot] = "new"]
    /\ UNCHANGED <<mem, seen, pre, dms, vdm, complete, aborted>>

\* the rest of op_new: the flag is cleared and the handle returned
NewClear(m, s) ==
    /\ Running
    /\ dms[m].live
    /\ pc[m][s] = "new"
    /\ LET new == sync_operation_new(m, fut[m][s].type, s) IN
       /\ complete' = new.complete
       /\ pc' = [pc EXCEPT ![m][s] = "idle"]
       /\ ret' = [fn |-> "op_new", m |-> m, s |-> new.handle, op |-> fut[m][s],
                  reused |-> FALSE, stale |-> complete[m][s]]
    /\ UNCHANGED <<mem, seen, pre, dms, vdm, membuf, fut, aborted>>

\* op_delete up to membuf_free: the output is written
DeleteOutput(m, s) ==
    /\ Running
    /\ dms[m].live
    /\ pc[m][s] \in {"idle", "done"}
    /\ ~sync_operation_delete(m, s, fut[m][s]).fatal
    /\ pc' = [pc EXCEPT ![m][s] = "deleting"]
    /\ UNCHANGED <<mem, seen, pre, dms, vdm, membuf, complete, fut, ret, aborted>>

\* the rest of op_delete: membuf_free and the return
DeleteFree(m, s) ==
    /\ Running
    /\ dms[m].live
    /\ pc[m][s] = "deleting"
    /\ LET del == sync_operation_delete(m, s, fut[m][s]) IN
       /\ membuf' = del.membuf
       /\ fut' = [fut EXCEPT ![m][s] = NoOperation]
       /\ pc' = [pc EXCEPT ![m][s] = "freed"]
       /\ ret' = [fn |-> "op_delete", m |-> m, s |-> s, op |-> fut[m][s],
                  started |-> (complete[m][s] = 1), out |-> del.output]
    /\ UNCHANGED <<mem, seen, pre, dms, vdm, complete, aborted>>

\* -------------------------------------------------------- specifications
\* the maps the program of Spec creates
LifeMaps == {1}

Next ==
    \/ \E r \in LifeMaps : MoverNew(r)
    \/ \E r \in LifeMaps : MoverDelete(r)
    \/ \E m \in Movers, o \in LifeOperations : OpNew(m, o)
    \/ \E r \in LifeMaps, o \in LifeOperations, flags \in 0..MaxFlags :
         /\ o.type = VDM_OPERATION_MEMCPY
         /\ Pmem2MemcpyAsync(r, o.dest, o.src, o.n, flags)
    \/ \E h \in Handles, n \in BOOLEAN : OpStart(h[1], h[2], n)
    \/ \E h \in Handles : StartAbort(h[1], h[2])
    \/ \E h \in Handles : OpCheck(h[1], h[2])
    \/ \E h \in Handles : OpDelete(h[1], h[2])

Spec == Init /\ [][Next]_vars

\* the program of SpecDrive: mover_new has returned 0 for map 1, then one
\* future is made and driven while other threads poll it
InitDrive ==
    /\ mem = [a \in Addr |-> a]
    /\ seen = mem
    /\ pre = mem
    /\ \E m \in Movers :
         /\ dms = [x \in Movers |-> IF x = m THEN [live |-> TRUE, map |-> 1]
                                     ELSE NoMover]
         /\ vdm = [r \in Maps |-> IF r = 1 THEN m ELSE NULL]
         /\ membuf = [x \in Movers |->
                        IF x = m THEN [user_data |-> m, used |-> {}]
                        ELSE NoMembuf]
         /\ \E garbage \in [Slots -> 0..1] :
              complete = [x \in Movers |->
                            IF x = m THEN garbage ELSE [s \in Slots |-> 0]]
         /\ ret = [fn |-> "mover_new", map |-> 1, m |-> m, val |-> 0]
    /\ fut = [m \in Movers |-> [s \in Slots |-> NoOperation]]
    /\ pc = [m \in Movers |-> [s \in Slots |-> "none"]]
    /\ aborted = FALSE

NextDrive ==
    \/ \E m \in Movers, o \in Operations :
         /\ ret.fn = "mover_new"
         /\ OpNew(m, o)
    \/ \E o \in Operations, flags \in 0..MaxFlags :
         /\ ret.fn = "mover_new"
         /\ o.type = VDM_OPERATION_MEMCPY
         /\ Pmem2MemcpyAsync(1, o.dest, o.src, o.n, flags)
    \/ \E h \in Handles : StartWrite(h[1], h[2])
    \/ \E a \in Addr : Propagate(a)
    \/ \E h \in Handles, n \in BOOLEAN : StartStore(h[1], h[2], n)
    \/ \E h \in Handles : StartAbort(h[1], h[2])
    \/ \E h \in Handles : OpCheck(h[1], h[2])
    \/ \E h \in Handles : OpDelete(h[1], h[2])

SpecDrive == InitDrive /\ [][NextDrive]_vars

\* The program of SpecDrive, one future of LifeOperations, with the threads
\* making progress: the thread inside sync_operation_start goes on from the
\* return of the region's function to the store of the flag (nothing between
\* lines 122/132 and 136 blocks or loops), and the driver of a future it has
\* found Complete goes on to op_delete
DeleteDone(m, s) == pc[m][s] = "done" /\ OpDelete(m, s)

NextDriveFair ==
    \/ \E m \in Movers, o \in LifeOperations :
         /\ ret.fn = "mover_new"
         /\ OpNew(m, o)
    \/ \E o \in LifeOperations, flags \in 0..MaxFlags :
         /\ ret.fn = "mover_new"
         /\ o.type = VDM_OPERATION_MEMCPY
         /\ Pmem2MemcpyAsync(1, o.dest, o.src, o.n, flags)
    \/ \E h \in Handles : StartWrite(h[1], h[2])
    \/ \E a \in Addr : Propagate(a)
    \/ \E h \in Handles, n \in BOOLEAN : StartStore(h[1], h[2], n)
    \/ \E h \in Handles : StartAbort(h[1], h[2])
    \/ \E h \in Handles : OpCheck(h[1], h[2])
    \/ \E h \in Handles : OpDelete(h[1], h[2])

SpecDriveFair ==
    /\ InitDrive
    /\ [][NextDriveFair]_vars
    /\ WF_vars(\E h \in Handles, n \in BOOLEAN : StartStore(h[1], h[2], n))
    /\ WF_vars(\E h \in Handles : DeleteDone(h[1], h[2]))

\* the program of SpecMulti: mover_new has returned 0 for every map (the
\* mover of map r is the data_mover at address MaxMovers + 1 - r), then up
\* to MaxFutures futures are made on these movers and driven
MoverOf(r) == MaxMovers + 1 - r

\* the operations the drivers of SpecMulti issue
MultiOperations ==
    { o \in LifeOperations : o.type # VDM_OPERATION_MEMSET }

\* the futures made so far
FuturesMade ==
    Cardinality({ h \in Handles : pc[h[1]][h[2]] # "none" })

InitMulti ==
    /\ mem = [a \in Addr |-> a]
    /\ seen = mem
    /\ pre = mem
    /\ dms = [m \in Movers |-> [live |-> TRUE, map |-> MoverOf(m)]]
    /\ vdm = [r \in Maps |-> MoverOf(r)]
    /\ membuf = [m \in Movers |-> [user_data |-> m, used |-> {}]]
    /\ complete = [m \in Movers |-> [s \in Slots |-> 0]]
    /\ fut = [m \in Movers |-> [s \in Slots |-> NoOperation]]
    /\ pc = [m \in Movers |-> [s \in Slots |-> "none"]]
    /\ ret = [fn |-> "mover_new", map |-> MaxMovers, m |-> MoverOf(MaxMovers),
              val |-> 0]
    /\ aborted = FALSE

NextMulti ==
    \/ \E m \in Movers, o \in MultiOperations :
         /\ FuturesMade < MaxFutures
         /\ OpNew(m, o)
    \/ \E r \in Maps, o \in MultiOperations, flags \in 0..MaxFlags :
         /\ FuturesMade < MaxFutures
         /\ o.type = VDM_OPERATION_MEMCPY
         /\ Pmem2MemcpyAsync(r, o.dest, o.src, o.n, flags)
    \/ \E h \in Handles, n \in BOOLEAN : OpStart(h[1], h[2], n)
    \/ \E h \in Handles : OpCheck(h[1], h[2])
    \/ \E h \in Handles : OpDelete(h[1], h[2])

SpecMulti == InitMulti /\ [][NextMulti]_vars

\* the program of SpecThreads: one mover, and as many threads as the arena
\* has slots, each making, driving and deleting futures of that mover
NextThreads ==
    \/ \E m \in Movers, o \in MultiOperations : NewAlloc(m, o)
    \/ \E h \in Handles : NewClear(h[1], h[2])
    \/ \E h \in Handles, n \in BOOLEAN : OpStart(h[1], h[2], n)
    \/ \E h \in Handles : OpCheck(h[1], h[2])
    \/ \E h \in Handles : DeleteOutput(h[1], h[2])
    \/ \E h \in Handles : DeleteFree(h[1], h[2])

SpecThreads == InitDrive /\ [][NextThreads]_vars

\* ------------------------------------------------------------------ ret
NewReturned == ret.fn \in {"op_new", "pmem2_memcpy_async"}

C3_CompleteIsTerminal ==
    /\ [](\A m \in Movers, s \in Slots :
            (dms[m].live /\ pc[m][s] = "done")
               => sync_operation_check(m, s) = FUTURE_STATE_COMPLETE)
    /\ [](ret.fn = "op_check" /\ pc[ret.m][ret.s] = "done"
               => ret.val = FUTURE_STATE_COMPLETE)
    /\ [][\A m \in Movers, s \in Slots :
            (dms'[m].live /\ s \in Held(m) /\ pc'[m][s] \in {"idle", "store", "done"}
             /\ sync_operation_check(m, s) = FUTURE_STATE_COMPLETE)
               => (sync_operation_check(m, s))' = FUTURE_STATE_COMPLETE]_vars

\* op_check has returned Complete for a started operation
C3_Witness ==
    /\ ret.fn = "op_check"
    /\ ret.val = FUTURE_STATE_COMPLETE
    /\ pc[ret.m][ret.s] = "done"

\* the bytes operation o is to leave in its destination are there in memory,
\* given the memory before the operation started
Written(memory, before, o) ==
    \A i \in 0..(o.n - 1) : memory[o.dest + i] = before[o.src + i]

\* memory differs from before in the destination of o at most
OnlyDest(memory, before, o) ==
    \A a \in Addr : (a < o.dest \/ a >= o.dest + o.n) => memory[a] = before[a]

\* the result of o is defined: a move, or a copy of ranges that do not overlap
Defined(o) ==
    \/ o.type = VDM_OPERATION_MEMMOVE
    \/ o.type = VDM_OPERATION_MEMCPY /\ ~Overlap(o.dest, o.src, o.n)

\* C2: with op_start on one thread and op_check on others, whenever the flag
\* of a live operation reads as set (op_check returns Complete) the write has
\* been made and every byte of the destination is visible to the other
\* threads as the starting thread wrote it; for a move, and for a copy of
\* ranges that do not overlap, these are the source's bytes from before.
C2_CompleteImpliesWritten ==
    \A m \in Movers, s \in Slots :
      (dms[m].live /\ s \in Held(m)
       /\ sync_operation_check(m, s) = FUTURE_STATE_COMPLETE)
         => /\ pc[m][s] \in {"store", "done"}
            /\ \A i \in 0..(fut[m][s].n - 1) :
                 seen[fut[m][s].dest + i] = mem[fut[m][s].dest + i]
            /\ Defined(fut[m][s]) => Written(seen, pre, fut[m][s])

\* a thread has polled an operation of the greatest length whose destination
\* differs from its source, and op_check returned Complete
C2_Witness ==
    /\ ret.fn = "op_check"
    /\ ret.val = FUTURE_STATE_COMPLETE
    /\ ret.s \in Held(ret.m)
    /\ fut[ret.m][ret.s].n = MaxLen
    /\ fut[ret.m][ret.s].dest # fut[ret.m][ret.s].src

\* C4: once op_start has returned for a copy of ranges that do not overlap,
\* the destination holds the source's bytes from before the start, the flag
\* is set, and nothing outside the destination (the source included) has
\* changed; this is still so when op_delete has returned for it.
C4_CopyResult ==
    /\ \A m \in Movers, s \in Slots :
         (dms[m].live /\ pc[m][s] = "done"
          /\ fut[m][s].type = VDM_OPERATION_MEMCPY
          /\ ~Overlap(fut[m][s].dest, fut[m][s].src, fut[m][s].n))
            => /\ Written(mem, pre, fut[m][s])
               /\ OnlyDest(mem, pre, fut[m][s])
               /\ \A i \in 0..(fut[m][s].n - 1) :
                    mem[fut[m][s].src + i] = pre[fut[m][s].src + i]
               /\ sync_operation_check(m, s) = FUTURE_STATE_COMPLETE
    /\ (ret.fn = "op_delete" /\ ret.started
        /\ ret.op.type = VDM_OPERATION_MEMCPY
        /\ ~Overlap(ret.op.dest, ret.op.src, ret.op.n))
            => /\ Written(mem, pre, ret.op)
               /\ OnlyDest(mem, pre, ret.op)
               /\ ret.out.result = VDM_SUCCESS

\* a copy of the greatest length between ranges that do not overlap has been
\* made, started and deleted, and it changed the memory
C4_Witness ==
    /\ ret.fn = "op_delete"
    /\ ret.started
    /\ ret.op.type = VDM_OPERATION_MEMCPY
    /\ ret.op.n = MaxLen
    /\ ~Overlap(ret.op.dest, ret.op.src, ret.op.n)
    /\ mem # [a \in Addr |-> a]

\* C5: after the write of a move whose ranges overlap, the destination holds
\* the source's bytes from before the start and nothing else has changed;
\* op_start called the map's memmove function for it.
C5_MoveResult ==
    /\ \A m \in Movers, s \in Slots :
         (dms[m].live /\ pc[m][s] \in {"store", "done"}
          /\ fut[m][s].type = VDM_OPERATION_MEMMOVE
          /\ Overlap(fut[m][s].dest, fut[m][s].src, fut[m][s].n))
            => /\ Written(mem, pre, fut[m][s])
               /\ OnlyDest(mem, pre, fut[m][s])
    /\ (ret.fn = "op_start" /\ ret.s \in Held(ret.m)
        /\ fut[ret.m][ret.s].type = VDM_OPERATION_MEMMOVE)
            => ret.called.fn = "memmove_fn"

\* op_start has returned for a move to a higher address of a range that
\* overlaps its source, which copying from the lowest byte up gets wrong
C5_Witness ==
    /\ ret.fn = "op_start"
    /\ ret.s \in Held(ret.m)
    /\ fut[ret.m][ret.s].type = VDM_OPERATION_MEMMOVE
    /\ fut[ret.m][ret.s].n = MaxLen
    /\ fut[ret.m][ret.s].dest = fut[ret.m][ret.s].src + 1
    /\ MaxLen >= 2

\* C6: on every mover that exists the slots its arena has handed out are
\* exactly the slots of the handles op_new returned and op_delete has not
\* taken back, so their number is the number of such op_new calls less the
\* number of op_delete calls, and none when every handle has been deleted.
C6_SlotsMatchHandles ==
    \A m \in Movers :
      dms[m].live
        => /\ membuf[m].used = Held(m)
           /\ Cardinality(membuf[m].used) = Cardinality(Held(m))

\* op_delete has returned for the last outstanding handle of a mover whose
\* other slot had been handed out and released too: no slot is outstanding
C6_Witness ==
    /\ ret.fn = "op_delete"
    /\ dms[ret.m].live
    /\ membuf[ret.m].used = {}
    /\ \A s \in Slots : pc[ret.m][s] = "freed"

\* C7: op_new returns no handle only when every slot of the arena is handed
\* out and it then returns (the process is not aborted) leaving the arena,
\* the flags and the futures as they were; whenever a slot is free, op_new
\* returns a handle.
C7_AllocationFailure ==
    /\ []((NewReturned /\ ret.s = NULL)
            => (~aborted /\ membuf[ret.m].used = Slots))
    /\ [][(NewReturned' /\ ret'.s = NULL)
            => UNCHANGED <<membuf, complete, fut, pc, mem, dms, vdm>>]_vars
    /\ [][(NewReturned' /\ dms[ret'.m].live /\ membuf[ret'.m].used # Slots)
            => ret'.s # NULL]_vars

\* op_new has returned no handle while every slot was outstanding and one of
\* the outstanding operations was complete
C7_Witness ==
    /\ NewReturned
    /\ ret.s = NULL
    /\ Held(ret.m) = Slots
    /\ \E s \in Slots : complete[ret.m][s] = 1

\* C8: when op_delete has returned for a copy or a move, the output has the
\* operation's type and destination address and the result VDM_SUCCESS, and
\* the operation's slot is not handed out any more.
C8_DeleteOutput ==
    ret.fn = "op_delete"
      => /\ ret.op.type \in {VDM_OPERATION_MEMCPY, VDM_OPERATION_MEMMOVE}
         /\ ret.out.type = ret.op.type
         /\ ret.out.dest = ret.op.dest
         /\ ret.out.result = VDM_SUCCESS
         /\ ret.s \notin membuf[ret.m].used

\* op_delete has returned for a move
C8_Witness ==
    /\ ret.fn = "op_delete"
    /\ ret.op.type = VDM_OPERATION_MEMMOVE
    /\ ret.op.dest # NULL

\* C9: mover_new returns 0 only with the data_mover and its arena (owned by
\* it) in place and map->vdm pointing to it; when it returns an error the
\* data_mover it allocated and its arena do not exist and the caller's handle
\* does not point to that data_mover.
C9_FailureLeavesNothing ==
    ret.fn = "mover_new"
      => IF ret.val = 0
         THEN /\ dms[ret.m].live
              /\ membuf[ret.m].user_data = ret.m
              /\ vdm[ret.map] = ret.m
         ELSE ret.m # NULL
                => /\ ~dms[ret.m].live
                   /\ membuf[ret.m] = NoMembuf
                   /\ vdm[ret.map] # ret.m

\* C10: mover_delete never returns having released a mover whose arena had
\* slots handed out: no future is left pointing into released memory.
C10_DeleteWithOutstandingAborts ==
    /\ ret.fn = "mover_delete" => ret.outstanding = 0
    /\ ~Broken

\* C11: with every map's mover in existence, the owner the arena gives for a
\* slot that op_new has handed out is the mover op_new was called on, and
\* op_start has called the copy/move function of the map that mover was made
\* for (the map whose vdm it is), not that of another map.
C11_OwnerAndRegion ==
    /\ \A m \in Movers, s \in Slots :
         (dms[m].live /\ s \in Held(m)) => membuf_ptr_user_data(m, s) = m
    /\ (NewReturned /\ ret.s # NULL)
         => membuf_ptr_user_data(ret.m, ret.s) = ret.m
    /\ ret.fn = "op_start"
         => /\ ret.called.map = dms[ret.m].map
            /\ vdm[ret.called.map] = ret.m

\* op_start has returned for an operation of a mover whose address is not the
\* number of its map while another mover has an operation outstanding
C11_Witness ==
    /\ ret.fn = "op_start"
    /\ ret.called.map # ret.m
    /\ \E m \in Movers : m # ret.m /\ dms[m].live /\ Held(m) # {}

\* C12: the library has a public entry point for moves next to
\* pmem2_memcpy_async, so that every future of kind move a mover hands out
\* was asked for through a public entry point of the library.  The only
\* public entry point of the source is pmem2_memcpy_async, and it builds
\* copies only: a move reaches the mover through sync_operation_new alone.
C12_MoveEntryPoint ==
    (NewReturned /\ ret.s # NULL /\ ret.op.type = VDM_OPERATION_MEMMOVE)
        => ret.fn \notin {"op_new", "pmem2_memcpy_async"}

\* C13 as stated: every op_start call on a copy or a move returns 0 and
\* reports FUTURE_NOTIFIER_NONE to the driver.  A driver may pass no notifier
\* (n = NULL), and then sync_operation_start reports nothing.
C13_AlwaysReportsNone ==
    ret.fn = "op_start"
        => ret.val = 0 /\ ret.notifier_used = FUTURE_NOTIFIER_NONE

\* C13, amended: every op_start call on a copy or a move returns 0; when the
\* driver passes a notifier, its notifier_used is set to FUTURE_NOTIFIER_NONE,
\* and when it passes none, nothing is reported.
C13_StartReturn ==
    ret.fn = "op_start"
        => /\ ret.val = 0
           /\ ret.n => ret.notifier_used = FUTURE_NOTIFIER_NONE
           /\ ~ret.n => ret.notifier_used = "unset"

\* op_start has returned to a driver that passed a notifier with a move
C13_Witness ==
    /\ ret.fn = "op_start"
    /\ ret.n
    /\ fut[ret.m][ret.s].type = VDM_OPERATION_MEMMOVE

\* C14: an operation of a kind other than copy and move is fatal in op_start
\* and in op_delete.  Neither call ever returns for such an operation; the
\* step in which the process aborts writes no byte, sets no flag and releases
\* no slot; and as long as its mover lives such an operation stays Idle in
\* its slot.
Unsupported(m, s) ==
    /\ dms[m].live
    /\ s \in Held(m)
    /\ fut[m][s].type \notin {VDM_OPERATION_MEMCPY, VDM_OPERATION_MEMMOVE}

C14_Step ==
    /\ (ret'.fn = "abort" /\ ret.fn # "abort")
         => /\ ret'.in \in {"op_start", "op_delete"}
                  => \E h \in Handles : Unsupported(h[1], h[2])
            /\ UNCHANGED <<mem, seen, complete, membuf, fut, pc>>
    /\ (ret'.fn = "op_start" /\ ret' # ret)
         => ~Unsupported(ret'.m, ret'.s)
    /\ (ret'.fn = "op_delete" /\ ret' # ret)
         => ret'.op.type \in {VDM_OPERATION_MEMCPY, VDM_OPERATION_MEMMOVE}
    /\ \A h \in Handles :
         (Unsupported(h[1], h[2]) /\ dms'[h[1]].live)
             => /\ complete'[h[1]][h[2]] = 0
                /\ pc'[h[1]][h[2]] = "idle"
                /\ h[2] \in membuf'[h[1]].used
                /\ fut'[h[1]][h[2]] = fut[h[1]][h[2]]

C14_UnsupportedIsFatal == [][C14_Step]_vars

\* the process has aborted in op_start on an operation that is still Idle in
\* its slot
C14_Witness ==
    /\ aborted
    /\ ret.fn = "abort"
    /\ ret.in = "op_start"
    /\ \E h \in Handles :
         /\ Unsupported(h[1], h[2])
         /\ complete[h[1]][h[2]] = 0
         /\ h[2] \in membuf[h[1]].used

\* C15: with threads in op_new and op_delete of one mover at once, the slots
\* the arena counts as allocated are exactly those that carry an operation
\* (being created, live, or being deleted), and membuf_alloc never hands out
\* a slot that carries one: a slot is handed out again only after the
\* membuf_free of the op_delete that released it.
C15_SlotsNeverShared ==
    /\ \A m \in Movers : dms[m].live => membuf[m].used = Occupied(m)
    /\ ret.fn = "membuf_alloc" => ~ret.taken

\* a thread is given the slot another thread's op_delete has released while a
\* third operation is in its own op_delete
C15_Witness ==
    /\ ret.fn = "membuf_alloc"
    /\ ret.reused
    /\ pc[ret.m][ret.s] = "new"
    /\ \E s \in Slots : s # ret.s /\ pc[ret.m][s] = "deleting"

\* C16: a mover_new that fails in membuf_new returns an error code that a
\* mover_new failing in pmem2_malloc never returns.  Both failures return
\* PMEM2_E_ERRNO, the negated errno, and a membuf_new that fails for want of
\* memory leaves the errno of a failed malloc.
C16_DistinctErrorCodes ==
    (ret.fn = "mover_new" /\ ret.m # NULL /\ ret.val # 0)
        => \A e \in MallocErrnos : ret.val # -e

\* C17: an operation whose op_start has called the region's function becomes
\* Complete without any other call being made on it, and the driver that
\* polls it reaches op_delete: a started operation never stays Idle.
InStart == \E h \in Handles : pc[h[1]][h[2]] = "store"

StartedComplete ==
    \E h \in Handles : pc[h[1]][h[2]] = "done" /\ complete[h[1]][h[2]] = 1

StartedDeleted ==
    /\ ret.fn = "op_delete"
    /\ ret.started
    /\ pc[ret.m][ret.s] = "freed"

C17_StartedCompletes ==
    /\ InStart ~> StartedComplete
    /\ InStart ~> StartedDeleted

\* a thread is inside op_start, before the store of the flag, and a poll of
\* another thread has just found the operation Idle
C17_Witness ==
    /\ ret.fn = "op_check"
    /\ pc[ret.m][ret.s] = "store"
    /\ complete[ret.m][ret.s] = 0

\* C18: pmem2_memcpy_async ignores flags.  The operation of the future it
\* returns is the copy of the given dest, src and length with flags 0, the
\* same for every value of flags, and so is the operation its driver starts.
C18_FlagsIgnored ==
    ret.fn = "pmem2_memcpy_async"
        => /\ ret.op = Operation(VDM_OPERATION_MEMCPY, ret.op.dest, ret.op.src,
                                 ret.op.n, 0)
           /\ \A f \in 0..MaxFlags :
                memcpy_async_operation(ret.op.dest, ret.op.src, ret.op.n, f)
                    = ret.op
           /\ ret.s # NULL => fut[ret.m][ret.s] = ret.op

\* pmem2_memcpy_async has returned a future to a caller that gave flags
C18_Witness ==
    /\ ret.fn = "pmem2_memcpy_async"
    /\ ret.flags # 0
    /\ ret.s # NULL
    /\ ret.op.n > 0

\* C19: whenever op_delete has returned an output with result VDM_SUCCESS,
\* op_start had run for the operation and its flag is set.  sync_operation_delete
\* never reads the flag: called on an operation that was never started it
\* returns VDM_SUCCESS and releases the slot all the same.
C19_SuccessImpliesStarted ==
    (ret.fn = "op_delete" /\ ret.out.result = VDM_SUCCESS)
        => ret.started /\ complete[ret.m][ret.s] = 1

\* C20: op_check only observes: a step in which it returns changes no flag,
\* no byte and nothing the allocator or the movers keep.  op_start changes
\* the flag of the operation it was called on and the flag of no other
\* operation, of the same mover or of another.
C20_Step ==
    /\ ret'.fn = "op_check"
         => UNCHANGED <<mem, seen, pre, dms, vdm, membuf, complete, fut, pc,
                        aborted>>
    /\ ret'.fn = "op_start"
         => /\ complete'[ret'.m][ret'.s] = 1
            /\ \A h \in Handles :
                 h # <<ret'.m, ret'.s>>
                     => complete'[h[1]][h[2]] = complete[h[1]][h[2]]
            /\ UNCHANGED <<membuf, fut, dms, vdm>>

C20_Frame == [][C20_Step]_vars

\* op_start has returned for one operation while an operation of another
\* mover and the same slot number is still Idle
C20_Witness ==
    /\ ret.fn = "op_start"
    /\ complete[ret.m][ret.s] = 1
    /\ \E m \in Movers :
         /\ m # ret.m
         /\ pc[m][ret.s] = "idle"
         /\ complete[m][ret.s] = 0

====
